---- MODULE Spec2Model ----
(***************************************************************************)
(* Model of the WUR API server of Hugin_API (src/wur_api/api_server.py):   *)
(* the REST handlers, the ZMQ request/reply link, the background           *)
(* process_trigger coroutine, the notification fan-out and the heartbeat   *)
(* tasks.  asyncio runs one coroutine at a time, so every action is the    *)
(* code between two await points that really suspend.                      *)
(*                                                                         *)
(* Text is modelled as a sequence of atoms: a digit, a blank, a word atom  *)
(* (a non-empty run of characters that are neither digits nor blanks) or   *)
(* BAD (a byte that is not valid UTF-8).                                   *)
(***************************************************************************)
EXTENDS Integers, Sequences, FiniteSets, TLC

\* ------------------------------------------------------------------ bounds
MaxLen == 6          \* longest backend reply enumerated for the codec
MaxTriggers == 2     \* trigger submissions per behaviour
MaxTasks == 2        \* heartbeat tasks created per behaviour
MaxCalls == 3        \* register/unregister calls per behaviour
MaxRequests == 2     \* requests sent to the dummy backend per behaviour
MaxPlantLen == 3     \* longest plant id (in atoms) echoed by the backend
MaxLinkTriggers == 3 \* trigger submissions per behaviour on the faulty link

\* --------------------------------------------------------- program constants
SUCCESS == 0
MAIN_CORRUPT == 1
THREE_D0_CORRUPT == 2
THREE_D1_CORRUPT == 4
THREE_D2_CORRUPT == 8
THERMAL_CORRUPT == 16
RESET_TIMEOUT == 32
REBOOT_TIMEOUT == 64
FATAL_UNKNOWN == 128
max_reconnect_attempts == 5
MaxBackoff == 30
DictUsable == 5      \* entries a minimal CPython dict holds before it is rebuilt

None == <<"None">>   \* Python's None, distinct from every text
HUGIN_S3_PREFIX == <<"hugin-images/images/">>

\* ------------------------------------------------------------------- text
Digits == {"0", "1", "2", "3", "4", "5", "6", "7", "8", "9"}
Blank == " "
BAD == "BAD"

DigitVal(c) ==
  CASE c = "0" -> 0 [] c = "1" -> 1 [] c = "2" -> 2 [] c = "3" -> 3
    [] c = "4" -> 4 [] c = "5" -> 5 [] c = "6" -> 6 [] c = "7" -> 7
    [] c = "8" -> 8 [] c = "9" -> 9

\* bytes.decode('utf-8'): fails on an invalid byte
Decodable(s) == \A i \in 1..Len(s) : s[i] # BAD

RECURSIVE LStrip(_)
LStrip(s) == IF s # <<>> /\ Head(s) = Blank THEN LStrip(Tail(s)) ELSE s

RECURSIVE RStrip(_)
RStrip(s) ==
  IF s # <<>> /\ s[Len(s)] = Blank THEN RStrip(SubSeq(s, 1, Len(s) - 1)) ELSE s

\* str.strip()
Strip(s) == LStrip(RStrip(s))

\* str.split() with no separator: the maximal runs of non-blank atoms
RECURSIVE SplitFrom(_, _, _)
SplitFrom(s, cur, acc) ==
  IF s = <<>> THEN (IF cur = <<>> THEN acc ELSE Append(acc, cur))
  ELSE IF Head(s) = Blank
       THEN SplitFrom(Tail(s), <<>>, IF cur = <<>> THEN acc ELSE Append(acc, cur))
       ELSE SplitFrom(Tail(s), Append(cur, Head(s)), acc)

Split(s) == SplitFrom(s, <<>>, <<>>)

\* int(token): defined for a non-empty run of digits, ValueError otherwise
IsInt(tok) == tok # <<>> /\ \A i \in 1..Len(tok) : tok[i] \in Digits

RECURSIVE IntOf(_)
IntOf(tok) ==
  IF tok = <<>> THEN 0
  ELSE 10 * IntOf(SubSeq(tok, 1, Len(tok) - 1)) + DigitVal(tok[Len(tok)])

\* ImageError.parse_response: (error, plant_id, image_dir)
parse_response_bad(response) ==
  IF ~Decodable(response) THEN <<FATAL_UNKNOWN, None, None>>
  ELSE LET parts == Split(Strip(response))
       IN IF parts = <<>> \/ ~IsInt(parts[1])
          THEN <<FATAL_UNKNOWN, None, None>>
          ELSE <<IntOf(parts[1]),
                 IF Len(parts) > 2 THEN parts[2] ELSE None,
                 IF Len(parts) > 2 THEN parts[3] ELSE None>>

parse_response(response) ==
  IF ~Decodable(response) THEN <<FATAL_UNKNOWN, None, None>>
  ELSE LET parts == Split(Strip(response))
       IN IF parts = <<>> \/ ~IsInt(parts[1])
          THEN <<FATAL_UNKNOWN, None, None>>
          ELSE <<IntOf(parts[1]),
                 IF Len(parts) > 1 THEN parts[2] ELSE None,
                 IF Len(parts) > 2 THEN parts[3] ELSE None>>

\* ------------------------------------------------------------------ state
VARIABLES
  current_metadata,    \* APIState.current_metadata: NoMetadata (None) or the metadata
  current_settings,    \* APIState.current_settings: None or a settings name
  triggers,            \* APIState.triggers: sequence of records, in creation order
  registered_clients,  \* APIState.registered_clients: the dict's entry array
  heartbeat_tasks,     \* APIState.heartbeat_tasks: client name -> task number (0: no key)
  tasks,               \* every heartbeat task created, in creation order
  zmq,                 \* the ZMQClient
  proc,                \* the process_trigger coroutine of each trigger (response:
                       \* the reply it received, None before)
  calls,               \* register/unregister calls made so far
  sent,                \* the HTTP posts completed by this step
  reply,               \* the Response returned by the handler run in this step
  issued,              \* the trigger ids returned so far with Type Success
  raw,                 \* codec: the reply under decoding
  parsed,              \* codec: the result of parse_response(raw), or NotParsed
  shutdown,            \* APIState.close: "running", "closing" (in gather) or "closed"
  dummy                \* the DummyHuginServer and the REQ peer that talks to it

vars == <<current_metadata, current_settings, triggers, registered_clients,
          heartbeat_tasks, tasks, zmq, proc, calls, sent, reply, issued, raw, parsed, shutdown, dummy>>

apiVars == <<current_metadata, current_settings, triggers, registered_clients,
             heartbeat_tasks, tasks, zmq, proc, calls, sent, reply, issued,
             shutdown>>

\* ------------------------------------------------------------- input sets
PlantIds == {<<"pA">>, <<"pB">>}
settings_files == {<<"s1">>}
TriggerIds == <<"t1", "t2", "t3", "t4">>      \* the uuid4 values, in order of issue
ClientNames == {"a", "b"}
GoodUri == "http://u"
OtherUri == "http://v"
Uris == {"", "nohost", GoodUri}
\* the replies the backend gives: the dummy backend's "<code> Success" and
\* "<code> Error", the documented "<code> <plant> <dir>", and malformed ones
Replies ==
  { <<"0", Blank, "Success">>, <<"1", "4", Blank, "Error">>,
    <<"0", Blank, "pA", Blank, "d1">>, <<"0">>, <<"1", "4", Blank>>,
    <<"garbage">> }

\* ------------------------------------------------------------ error values
NoError == [kind |-> "none", code |-> 0, text |-> ""]
CodeError(n) == [kind |-> "code", code |-> n, text |-> ""]
TextError(s) == [kind |-> "text", code |-> 0, text |-> s]

\* ---------------------------------------------------------------- the dict
\* A CPython dict is an insertion-ordered entry array; a deleted key leaves a
\* dead entry behind until the array is rebuilt.
DictLive(d) == {i \in 1..Len(d) : d[i].live}
DictLen(d) == Cardinality(DictLive(d))
DictKeys(d) == {d[i].key : i \in DictLive(d)}
DictIdx(d, k) == CHOOSE i \in DictLive(d) : d[i].key = k
DictGet(d, k) == d[DictIdx(d, k)].val

RECURSIVE DictCompact(_)
DictCompact(d) ==
  IF d = <<>> THEN <<>>
  ELSE IF Head(d).live THEN <<Head(d)>> \o DictCompact(Tail(d))
       ELSE DictCompact(Tail(d))

DictSet(d, k, v) ==
  IF k \in DictKeys(d)
  THEN [d EXCEPT ![DictIdx(d, k)].val = v]
  ELSE Append(IF Len(d) >= DictUsable THEN DictCompact(d) ELSE d,
              [key |-> k, live |-> TRUE, val |-> v])

DictDelNot(d, k) == d

DictDel(d, k) ==
  [d EXCEPT ![DictIdx(d, k)] = [key |-> "", live |-> FALSE, val |-> None]]

\* iter(d.items()): position, size at creation, entries still expected
DictIter(d) == [pos |-> 1, used |-> DictLen(d), left |-> DictLen(d)]

\* next(it): <<"item", index, it'>>, <<"stop">> or <<"RuntimeError">>
DictNext(d, it) ==
  IF it.used # DictLen(d) THEN [r |-> "RuntimeError", i |-> 0, it |-> it]
  ELSE LET rest == {i \in DictLive(d) : i >= it.pos}
       IN IF rest = {} THEN [r |-> "stop", i |-> 0, it |-> it]
          ELSE IF it.left = 0 THEN [r |-> "RuntimeError", i |-> 0, it |-> it]
          ELSE LET i == CHOOSE j \in rest : \A m \in rest : j <= m
               IN [r |-> "item", i |-> i,
                   it |-> [it EXCEPT !.pos = i + 1, !.left = it.left - 1]]

\* ------------------------------------------------------------------- Init
NoReply == [op |-> "", arg |-> None, Type |-> "", MessageText |-> "", Values |-> <<>>]
\* the Response of handler op called with arg (a text)
Response(op, arg, type, text, values) ==
  [op |-> op, arg |-> arg, Type |-> type, MessageText |-> text, Values |-> values]

NoIter == [pos |-> 0, used |-> 0, left |-> 0]
NoPayload == [TriggerId |-> "", PlantId |-> None, Status |-> "",
              ImagePath |-> None, ImageId |-> None, Error |-> NoError]
NoTarget == [name |-> "", uri |-> "", payload |-> NoPayload]
NoMetadata == [PlantId |-> None, ExperimentId |-> None]
NoMessage == [plant_id |-> None, settings |-> None, experiment_id |-> None]
NotParsed == <<-1, None, None>>
IdleProc == [pc |-> "none", msg |-> NoMessage, closed |-> FALSE, err |-> "",
             phase |-> 0, payload |-> NoPayload, it |-> NoIter,
             target |-> NoTarget, response |-> None, slept |-> 0]

InitApi ==
  /\ current_metadata = NoMetadata
  /\ current_settings = None
  /\ triggers = <<>>
  /\ registered_clients = <<>>
  /\ heartbeat_tasks = [n \in ClientNames |-> 0]
  /\ tasks = <<>>
  /\ zmq = [connected |-> FALSE, reconnect_attempts |-> 0, socket |-> TRUE,
            req |-> ""]
  /\ proc = [i \in 1..(MaxTriggers + 1) |-> IdleProc]
  /\ calls = 0
  /\ sent = {}
  /\ reply = NoReply
  /\ issued = {}
  /\ shutdown = "running"

\* DummyHuginServer.__init__ (error_rate in percent)
DummyHuginServer(error_rate) ==
  [error_rate |-> error_rate, running |-> FALSE, task |-> "None", pc |-> "",
   stop |-> "idle", socket |-> TRUE, queue |-> <<>>, received |-> 0,
   replies |-> 0, request |-> "", simulated |-> FALSE, error |-> 0,
   reply |-> <<>>]

Init ==
  InitApi /\ raw = <<>> /\ parsed = NotParsed /\ dummy = DummyHuginServer(20)

\* ------------------------------------------------------------ REST handlers
\* set_metadata: the body is validated by the framework, so it is never null
set_metadata(metadata) ==
  /\ current_metadata' = metadata
  /\ reply' = Response("set_metadata", metadata.PlantId, "Success", "", <<>>)
  /\ sent' = {}
  /\ UNCHANGED <<current_settings, triggers, registered_clients, heartbeat_tasks,
                 tasks, zmq, proc, calls, issued, raw, parsed, shutdown, dummy>>

KnownSettingsAny(settings_name) == TRUE

\* set_settings' check of the name against state.settings_files
KnownSettings(settings_name) == settings_name \in settings_files

set_settings(settings_name) ==
  /\ IF ~KnownSettings(settings_name)
     THEN /\ reply' = Response("set_settings", settings_name, "Error", "not found", <<>>)
          /\ UNCHANGED current_settings
     ELSE /\ current_settings' = settings_name
          /\ reply' = Response("set_settings", settings_name, "Success", "", <<>>)
  /\ sent' = {}
  /\ UNCHANGED <<current_metadata, triggers, registered_clients, heartbeat_tasks,
                 tasks, zmq, proc, calls, issued, raw, parsed, shutdown, dummy>>

prepare_zmq_message_default(metadata, settings_name) ==
  [plant_id |-> metadata.PlantId, settings |-> None,
   experiment_id |-> metadata.ExperimentId]

\* prepare_zmq_message: the fields of the request document that depend on
\* the call (the uuid and the time stamp are fresh and unused by the server)
prepare_zmq_message(metadata, settings_name) ==
  [plant_id |-> metadata.PlantId, settings |-> settings_name,
   experiment_id |-> metadata.ExperimentId]

NewTriggerShared(tr, trigger_id, plant_id) ==
  Append([i \in DOMAIN tr |-> [tr[i] EXCEPT !.metadata = current_metadata]],
         [id |-> trigger_id, status |-> "busy", plant_id |-> plant_id,
          settings |-> current_settings, metadata |-> current_metadata,
          image_id |-> None, image_dir |-> None, error |-> NoError])

\* the record trigger() stores under the new id
NewTrigger(tr, trigger_id, plant_id) ==
  Append(tr, [id |-> trigger_id, status |-> "busy", plant_id |-> plant_id,
              settings |-> current_settings, metadata |-> current_metadata,
              image_id |-> None, image_dir |-> None, error |-> NoError])

HasMetadataAlways(metadata) == TRUE

\* trigger's check that metadata is set
HasMetadata(metadata) == metadata # NoMetadata

MismatchNever(plant_id, metadata) == FALSE

\* trigger's check of the plant id against the stored metadata
Mismatch(plant_id, metadata) == plant_id # metadata.PlantId

\* trigger, with at most limit submissions per behaviour
submit(plant_id, limit) ==
  /\ Len(triggers) < limit
  /\ sent' = {}
  /\ UNCHANGED <<current_metadata, current_settings, registered_clients,
                 heartbeat_tasks, tasks, zmq, calls, raw, parsed, shutdown, dummy>>
  /\ IF ~HasMetadata(current_metadata)
     THEN /\ reply' = Response("trigger", plant_id, "Error",
                               "No metadata provided before trigger", <<>>)
          /\ UNCHANGED <<triggers, proc, issued>>
     ELSE IF Mismatch(plant_id, current_metadata)
     THEN /\ reply' = Response("trigger", plant_id, "Warning", "Plant ID mismatch", <<>>)
          /\ UNCHANGED <<triggers, proc, issued>>
     ELSE LET n == Len(triggers) + 1
              trigger_id == TriggerIds[n]
          IN /\ triggers' = NewTrigger(triggers, trigger_id, plant_id)
             /\ proc' = [proc EXCEPT ![n] =
                           [IdleProc EXCEPT !.pc = "scheduled",
                              !.msg = prepare_zmq_message(current_metadata,
                                                          current_settings)]]
             /\ reply' = Response("trigger", plant_id, "Success", "", <<trigger_id>>)
             /\ issued' = issued \cup {trigger_id}

trigger(plant_id) == submit(plant_id, MaxTriggers)

\* lookup of a trigger id in state.triggers: its index, 0 when absent
TriggerIdx(tr, trigger_id) ==
  IF \E i \in 1..Len(tr) : tr[i].id = trigger_id
  THEN CHOOSE i \in 1..Len(tr) : tr[i].id = trigger_id
  ELSE 0

StatusForIdStale(tr, trigger_id) ==
  IF TriggerIdx(tr, trigger_id) = 0 \/ tr[TriggerIdx(tr, trigger_id)].status = "busy"
  THEN "invalid" ELSE tr[TriggerIdx(tr, trigger_id)].status

\* the MessageText get_status_for_id answers
StatusForId(tr, trigger_id) ==
  IF TriggerIdx(tr, trigger_id) = 0 THEN "invalid"
  ELSE tr[TriggerIdx(tr, trigger_id)].status

get_status_for_id(trigger_id) ==
  /\ reply' = Response("get_status_for_id", <<trigger_id>>, "Message",
                       StatusForId(triggers, trigger_id), <<>>)
  /\ sent' = {}
  /\ UNCHANGED <<current_metadata, current_settings, triggers, registered_clients,
                 heartbeat_tasks, tasks, zmq, proc, calls, issued, raw, parsed, shutdown, dummy>>

BusyTriggersAll(tr) == 1..Len(tr)

\* get_status: the records whose status is busy, in insertion order
BusyTriggers(tr) == {i \in 1..Len(tr) : tr[i].status = "busy"}

get_status ==
  /\ reply' = IF BusyTriggers(triggers) # {}
              THEN LET i == CHOOSE j \in BusyTriggers(triggers) :
                              \A m \in BusyTriggers(triggers) : j <= m
                   IN Response("get_status", None, "Message", "busy",
                               <<<<triggers[i].id>>>>)
              ELSE Response("get_status", None, "Message", "idle", <<>>)
  /\ sent' = {}
  /\ UNCHANGED <<current_metadata, current_settings, triggers, registered_clients,
                 heartbeat_tasks, tasks, zmq, proc, calls, issued, raw, parsed, shutdown, dummy>>

ImageIdOfAny(rec) == <<"img_">>

\* get_image_id: trigger_data.get("image_id")
ImageIdOf(rec) == rec.image_id

get_image_id(trigger_id) ==
  /\ LET i == TriggerIdx(triggers, trigger_id)
     IN reply' =
          IF i = 0
          THEN Response("get_image_id", <<trigger_id>>, "Error", "Invalid trigger ID", <<>>)
          ELSE IF triggers[i].status # "finished"
          THEN Response("get_image_id", <<trigger_id>>, "Error", "Image not available", <<>>)
          ELSE IF ImageIdOf(triggers[i]) \in {None, <<>>}
          THEN Response("get_image_id", <<trigger_id>>, "Error", "Image ID not available", <<>>)
          ELSE Response("get_image_id", <<trigger_id>>, "Success", "",
                        <<ImageIdOf(triggers[i])>>)
  /\ sent' = {}
  /\ UNCHANGED <<current_metadata, current_settings, triggers, registered_clients,
                 heartbeat_tasks, tasks, zmq, proc, calls, issued, raw, parsed, shutdown, dummy>>

\* ------------------------------------------------------------- heartbeats
\* Task.done()
TaskDone(k) == tasks[k].pc = "done"

\* Task.cancel() on every task of ks that is not done
CancelTasks(ts, ks) ==
  [k \in 1..Len(ts) |->
     IF k \in ks /\ ts[k].pc # "done" THEN [ts[k] EXCEPT !.cancel = TRUE] ELSE ts[k]]

HasLiveTask(name) == heartbeat_tasks[name] # 0 /\ ~TaskDone(heartbeat_tasks[name])

start_heartbeat_task_never(client_name, client_data) == <<tasks, heartbeat_tasks>>

\* APIState.start_heartbeat_task: <<tasks', heartbeat_tasks'>>
start_heartbeat_task(client_name, client_data) ==
  LET ts == IF HasLiveTask(client_name)
            THEN CancelTasks(tasks, {heartbeat_tasks[client_name]}) ELSE tasks
  IN IF client_data.HeartBeatInterval <= 0 THEN <<ts, heartbeat_tasks>>
     ELSE <<Append(ts, [name |-> client_name, uri |-> client_data.Uri,
                        pc |-> "new", cancel |-> FALSE]),
            [heartbeat_tasks EXCEPT ![client_name] = Len(ts) + 1]>>

ValidUriAny(uri) == TRUE

\* urlparse(uri) has a scheme and a netloc
ValidUri(uri) == uri \in {GoodUri, OtherUri}

\* register's guard on the call of start_heartbeat_task
RegisterStarts(registration_data) == registration_data.HeartBeatInterval > 0

register(registration_data) ==
  /\ calls < MaxCalls
  /\ registration_data.HeartBeatInterval > 0 => Len(tasks) < MaxTasks
  /\ calls' = calls + 1
  /\ sent' = {}
  /\ UNCHANGED <<current_metadata, current_settings, triggers, zmq, proc, issued, raw, parsed, shutdown, dummy>>
  /\ IF registration_data.ClientName = ""
     THEN /\ reply' = Response("register", <<registration_data.ClientName, registration_data.Uri>>, "Error", "Client name is required", <<>>)
          /\ UNCHANGED <<registered_clients, heartbeat_tasks, tasks>>
     ELSE IF registration_data.Uri = ""
     THEN /\ reply' = Response("register", <<registration_data.ClientName, registration_data.Uri>>, "Error", "URI is required", <<>>)
          /\ UNCHANGED <<registered_clients, heartbeat_tasks, tasks>>
     ELSE IF ~ValidUri(registration_data.Uri)
     THEN /\ reply' = Response("register", <<registration_data.ClientName, registration_data.Uri>>, "Error", "Invalid URI", <<>>)
          /\ UNCHANGED <<registered_clients, heartbeat_tasks, tasks>>
     ELSE /\ registered_clients' =
               DictSet(registered_clients, registration_data.ClientName,
                       registration_data)
          /\ IF RegisterStarts(registration_data)
             THEN LET st == start_heartbeat_task(registration_data.ClientName,
                                                 registration_data)
                  IN tasks' = st[1] /\ heartbeat_tasks' = st[2]
             ELSE UNCHANGED <<heartbeat_tasks, tasks>>
          /\ reply' = Response("register", <<registration_data.ClientName, registration_data.Uri>>, "Success", "", <<>>)

unregister(client_name) ==
  /\ calls < MaxCalls
  /\ calls' = calls + 1
  /\ sent' = {}
  /\ UNCHANGED <<current_metadata, current_settings, triggers, heartbeat_tasks,
                 zmq, proc, issued, raw, parsed, shutdown, dummy>>
  /\ IF client_name \in DictKeys(registered_clients)
     THEN /\ tasks' = IF HasLiveTask(client_name)
                      THEN CancelTasks(tasks, {heartbeat_tasks[client_name]})
                      ELSE tasks
          /\ registered_clients' = DictDel(registered_clients, client_name)
          /\ reply' = Response("unregister", <<client_name>>, "Success", "", <<>>)
     ELSE /\ reply' = Response("unregister", <<client_name>>, "Error", "not registered", <<>>)
          /\ UNCHANGED <<registered_clients, tasks>>

Event(type, name, uri, ok, payload) ==
  [Type |-> type, to |-> name, uri |-> uri, ok |-> ok, payload |-> payload]

\* the Heartbeat payload of send_heartbeat; the time stamp is left out
HeartbeatPayload == [NoPayload EXCEPT !.Status = "alive"]

\* _heartbeat_loop enters send_heartbeat and suspends in session.post
HeartbeatPost(k) ==
  /\ k \in 1..Len(tasks)
  /\ tasks[k].pc \in {"new", "sleeping"}
  /\ ~tasks[k].cancel
  /\ tasks' = [tasks EXCEPT ![k].pc = "posting"]
  /\ sent' = {}
  /\ reply' = NoReply
  /\ UNCHANGED <<current_metadata, current_settings, triggers, registered_clients,
                 heartbeat_tasks, zmq, proc, calls, issued, raw, parsed, shutdown, dummy>>

\* the post completes (ok: a 2xx answer); the loop suspends in asyncio.sleep
HeartbeatPosted(k, ok) ==
  /\ k \in 1..Len(tasks)
  /\ tasks[k].pc = "posting"
  /\ ~tasks[k].cancel
  /\ tasks' = [tasks EXCEPT ![k].pc = "sleeping"]
  /\ sent' = {Event("Heartbeat", tasks[k].name, tasks[k].uri, ok, HeartbeatPayload)}
  /\ reply' = NoReply
  /\ UNCHANGED <<current_metadata, current_settings, triggers, registered_clients,
                 heartbeat_tasks, zmq, proc, calls, issued, raw, parsed, shutdown, dummy>>

\* a cancelled task is resumed with CancelledError, which the loop re-raises
HeartbeatCancelled(k) ==
  /\ k \in 1..Len(tasks)
  /\ tasks[k].pc # "done"
  /\ tasks[k].cancel
  /\ tasks' = [tasks EXCEPT ![k].pc = "done", ![k].cancel = FALSE]
  /\ sent' = {}
  /\ reply' = NoReply
  /\ UNCHANGED <<current_metadata, current_settings, triggers, registered_clients,
                 heartbeat_tasks, zmq, proc, calls, issued, raw, parsed, shutdown, dummy>>

\* ------------------------------------------------------------ the ZMQ link
\* ZMQClient.close: the socket is closed and dropped
ZMQClient_close(z) == [z EXCEPT !.socket = FALSE, !.connected = FALSE, !.req = ""]

create_socket_keep(z) == [z EXCEPT !.socket = TRUE]

\* ZMQClient.create_socket: the old socket is closed, the new REQ socket has
\* no request outstanding
create_socket(z) == [z EXCEPT !.socket = TRUE, !.req = ""]

connect_keep(z, ok) == [z EXCEPT !.connected = ok]

\* ZMQClient._connect; ok: socket.connect raised no ZMQError
connect(z, ok) ==
  IF ok THEN [z EXCEPT !.connected = TRUE, !.reconnect_attempts = 0]
  ELSE [z EXCEPT !.connected = FALSE]

\* ZMQClient.ensure_connection; stale: more than 300 s since last_activity
ensure_connection(z, stale, ok) ==
  IF ~z.connected \/ stale
  THEN [z |-> connect(create_socket(z), ok), ret |-> ok, replaced |-> TRUE]
  ELSE [z |-> z, ret |-> z.connected, replaced |-> FALSE]

\* the seconds reconnect sleeps after a failed attempt
Pow2(n) == IF n = 0 THEN 1 ELSE IF n = 1 THEN 2 ELSE IF n = 2 THEN 4
           ELSE IF n = 3 THEN 8 ELSE IF n = 4 THEN 16 ELSE 32
Min(a, b) == IF a < b THEN a ELSE b
backoff_time_flat(attempts) == 2

backoff_time(attempts) == Min(Pow2(attempts), MaxBackoff)

reconnect_unbounded(z, ok) ==
  LET z1 == connect(create_socket(
                [z EXCEPT !.reconnect_attempts = z.reconnect_attempts + 1]), ok)
  IN [z |-> z1, ret |-> ok,
      slept |-> IF ok THEN 0 ELSE backoff_time(z1.reconnect_attempts),
      replaced |-> TRUE]

\* ZMQClient.reconnect up to its return or its sleep
reconnect(z, ok) ==
  IF z.reconnect_attempts >= max_reconnect_attempts
  THEN [z |-> z, ret |-> FALSE, slept |-> 0, replaced |-> FALSE]
  ELSE LET z1 == connect(create_socket(
                     [z EXCEPT !.reconnect_attempts = z.reconnect_attempts + 1]), ok)
       IN [z |-> z1, ret |-> ok,
           slept |-> IF ok THEN 0 ELSE backoff_time(z1.reconnect_attempts),
           replaced |-> TRUE]

\* closing a socket ends the send and the receive that wait on it
Waiting == {"send_wait", "recv"}
CloseWaiters(pr, replaced) ==
  [i \in DOMAIN pr |->
     IF replaced /\ pr[i].pc \in Waiting THEN [pr[i] EXCEPT !.closed = TRUE]
     ELSE pr[i]]

\* ---------------------------------------------------------------- shutdown
GatheredAny(ts, ks) == TRUE

\* asyncio.gather(*heartbeat_tasks.values()) has its result: every task is done
Gathered(ts, ks) == \A k \in ks : ts[k].pc = "done"

\* the tasks state.heartbeat_tasks holds
HeartbeatTaskValues == {heartbeat_tasks[n] : n \in ClientNames} \ {0}

\* APIState.close after the gather: the link is closed (the notification
\* session holds no state of the model)
CloseLink ==
  /\ zmq' = ZMQClient_close(zmq)
  /\ proc' = CloseWaiters(proc, TRUE)
  /\ shutdown' = "closed"

\* APIState.close up to its await of the gather, or to its end when the gather
\* has nothing to wait for.  The server runs it after its requests have
\* ended, so the cancellations they requested have been delivered
\* (call_soon runs callbacks in the order of their registration).
close_gather ==
  /\ shutdown = "running"
  /\ \A k \in 1..Len(tasks) : ~tasks[k].cancel
  /\ tasks' = CancelTasks(tasks, HeartbeatTaskValues)
  /\ IF Gathered(tasks', HeartbeatTaskValues)
     THEN CloseLink
     ELSE shutdown' = "closing" /\ UNCHANGED <<zmq, proc>>
  /\ sent' = {}
  /\ reply' = NoReply
  /\ UNCHANGED <<current_metadata, current_settings, triggers, registered_clients,
                 heartbeat_tasks, calls, issued, raw, parsed, dummy>>

\* the gather returns: APIState.close runs to its end
close ==
  /\ shutdown = "closing"
  /\ Gathered(tasks, HeartbeatTaskValues)
  /\ CloseLink
  /\ sent' = {}
  /\ reply' = NoReply
  /\ UNCHANGED <<current_metadata, current_settings, triggers, registered_clients,
                 heartbeat_tasks, tasks, calls, issued, raw, parsed, dummy>>

\* -------------------------------------------------------- process_trigger
KeepBusy(rec) == rec

\* the finally block: a record still busy becomes an error
finally(rec) ==
  IF rec.status = "busy"
  THEN [rec EXCEPT !.status = "error", !.error = TextError("Unexpected state")]
  ELSE rec

\* the coroutine ends: the finally block has run
Finish(t, z, pr, tr) ==
  /\ zmq' = z
  /\ triggers' = [tr EXCEPT ![t] = finally(tr[t])]
  /\ proc' = [pr EXCEPT ![t] = [IdleProc EXCEPT !.pc = "done",
                                     !.response = pr[t].response]]

\* the coroutine is ended by a CancelledError raised at its await: the except
\* CancelledError branch re-raises it, the finally block runs
Cancelled(t, z, pr, tr) ==
  /\ zmq' = z
  /\ triggers' = [tr EXCEPT ![t] = finally(tr[t])]
  /\ proc' = [pr EXCEPT ![t] = [IdleProc EXCEPT !.pc = "done",
                                     !.err = "CancelledError",
                                     !.response = pr[t].response]]

BasePayloadSuccess(rec, plant_id, image_dir) ==
  [TriggerId |-> rec.id, PlantId |-> plant_id, Status |-> "success",
   ImagePath |-> None, ImageId |-> None, Error |-> rec.error]

\* notify_image_acquisition builds the base payload from the record
BasePayload(rec, plant_id, image_dir) ==
  LET withPath == image_dir # None /\ rec.status = "finished"
  IN [TriggerId |-> rec.id,
      PlantId |-> plant_id,
      Status |-> IF rec.status = "finished" THEN "success" ELSE "error",
      ImagePath |-> IF withPath THEN HUGIN_S3_PREFIX \o image_dir ELSE None,
      ImageId |-> IF withPath THEN plant_id \o <<"_">> \o image_dir ELSE None,
      Error |-> rec.error]

ClientPayloadKeep(payload, client_data) == payload

\* the copy of the payload made for one client
ClientPayload(payload, client_data) ==
  IF ~client_data.SendPathInfo THEN [payload EXCEPT !.ImagePath = None]
  ELSE payload

Target(d, i, payload) ==
  [name |-> d[i].key, uri |-> d[i].val.Uri,
   payload |-> ClientPayload(payload, d[i].val)]

\* notify_image_acquisition up to its first post, or its return
Notify(t, z, pr, tr, phase, plant_id, image_dir) ==
  IF DictLen(registered_clients) = 0
  THEN Finish(t, z, pr, tr)
  ELSE LET payload == BasePayload(tr[t], plant_id, image_dir)
           n == DictNext(registered_clients, DictIter(registered_clients))
       IN /\ zmq' = z
          /\ triggers' = tr
          /\ proc' = [pr EXCEPT ![t] =
                        [IdleProc EXCEPT !.pc = "posting", !.phase = phase,
                           !.response = pr[t].response,
                           !.payload = payload, !.it = n.it,
                           !.target = Target(registered_clients, n.i, payload)]]

ErrorRecordRetry(rec, e) ==
  [rec EXCEPT !.status = "busy", !.error = TextError(e)]

\* the record update of the except Exception branch
ErrorRecord(rec, e) ==
  [rec EXCEPT !.status = "error", !.error = TextError(e)]

ExceptQuiet(t, z, pr, tr, e) ==
  Finish(t, z, pr, [tr EXCEPT ![t] = ErrorRecord(@, e)])

\* the except Exception branch: the record becomes an error, a notification
\* is attempted
Except(t, z, pr, tr, e) ==
  LET tr1 == [tr EXCEPT ![t] = ErrorRecord(@, e)]
  IN Notify(t, z, pr, tr1, 2, tr1[t].plant_id, None)

\* the except ZMQError branch of send and receive: reconnect, then re-raise
Handler(t, z, pr, e, ok) ==
  LET r == reconnect(z, ok)
      pr1 == CloseWaiters(pr, r.replaced)
  IN IF r.slept > 0
     THEN /\ zmq' = r.z
          /\ proc' = [pr1 EXCEPT ![t] = [IdleProc EXCEPT !.pc = "backoff2", !.err = e,
                                           !.msg = pr[t].msg,
                                           !.slept = r.slept]]
          /\ UNCHANGED triggers
     ELSE Except(t, r.z, pr1, triggers, e)

\* socket.send_string on the REQ socket: refused while a reply is outstanding,
\* taken at once when the backend is reachable, else queued
SendString(t, z, pr, reachable, ok) ==
  IF z.req # ""
  THEN Handler(t, z, pr, "EFSM", ok)
  ELSE /\ zmq' = IF reachable THEN [z EXCEPT !.req = triggers[t].id] ELSE z
       /\ proc' = [pr EXCEPT ![t].pc = IF reachable THEN "recv" ELSE "send_wait",
                             ![t].closed = FALSE]
       /\ UNCHANGED triggers

\* process_trigger starts: ZMQClient.send up to its first suspension
ProcSend(t, stale, ok1, ok2, reachable) ==
  /\ proc[t].pc = "scheduled"
  /\ sent' = {}
  /\ reply' = NoReply
  /\ UNCHANGED <<current_metadata, current_settings, registered_clients,
                 heartbeat_tasks, tasks, calls, issued, raw, parsed, shutdown, dummy>>
  /\ LET e == ensure_connection(zmq, stale, ok1)
         pr1 == CloseWaiters(proc, e.replaced)
     IN IF e.ret THEN SendString(t, e.z, pr1, reachable, ok2)
        ELSE LET r == reconnect(e.z, ok2)
                 pr2 == CloseWaiters(pr1, r.replaced)
             IN IF r.ret THEN SendString(t, r.z, pr2, reachable, ok2)
                ELSE IF r.slept > 0
                THEN /\ zmq' = r.z
                     /\ proc' = [pr2 EXCEPT ![t].pc = "backoff1",
                                            ![t].slept = r.slept]
                     /\ UNCHANGED triggers
                ELSE Handler(t, r.z, pr2, "ENOTCONN", ok2)

\* the sleep of send's first reconnect ends: ENOTCONN is raised and handled
ProcBackoff1(t, ok) ==
  /\ proc[t].pc = "backoff1"
  /\ sent' = {}
  /\ reply' = NoReply
  /\ UNCHANGED <<current_metadata, current_settings, registered_clients,
                 heartbeat_tasks, tasks, calls, issued, raw, parsed, shutdown, dummy>>
  /\ Handler(t, zmq, proc, "ENOTCONN", ok)

\* the sleep of the handler's reconnect ends: the error is re-raised
ProcBackoff2(t) ==
  /\ proc[t].pc = "backoff2"
  /\ sent' = {}
  /\ reply' = NoReply
  /\ UNCHANGED <<current_metadata, current_settings, registered_clients,
                 heartbeat_tasks, tasks, calls, issued, raw, parsed, shutdown, dummy>>
  /\ Except(t, zmq, proc, triggers, proc[t].err)

\* a queued send is taken when the backend becomes reachable
ProcSendTaken(t, ok) ==
  /\ proc[t].pc = "send_wait"
  /\ ~proc[t].closed
  /\ sent' = {}
  /\ reply' = NoReply
  /\ UNCHANGED <<current_metadata, current_settings, registered_clients,
                 heartbeat_tasks, tasks, calls, issued, raw, parsed, shutdown, dummy>>
  /\ SendString(t, zmq, proc, TRUE, ok)

\* SNDTIMEO or RCVTIMEO expires: zmq.Again
ProcTimeout(t, ok) ==
  /\ proc[t].pc \in Waiting
  /\ ~proc[t].closed
  /\ sent' = {}
  /\ reply' = NoReply
  /\ UNCHANGED <<current_metadata, current_settings, registered_clients,
                 heartbeat_tasks, tasks, calls, issued, raw, parsed, shutdown, dummy>>
  /\ Handler(t, zmq, proc, "EAGAIN", ok)

\* the socket was closed under the waiting coroutine: its future is cancelled
\* (CancelledError passes through to the finally block) or fails (ZMQError)
ProcSocketClosed(t, cancelled, ok) ==
  /\ proc[t].pc \in Waiting
  /\ proc[t].closed
  /\ sent' = {}
  /\ reply' = NoReply
  /\ UNCHANGED <<current_metadata, current_settings, registered_clients,
                 heartbeat_tasks, tasks, calls, issued, raw, parsed, shutdown, dummy>>
  /\ IF cancelled THEN Cancelled(t, zmq, proc, triggers)
     ELSE Handler(t, zmq, proc, "ENOTSOCK", ok)

\* the task that runs process_trigger is cancelled while the coroutine is
\* suspended at one of its awaits
Suspended == Waiting \cup {"backoff1", "backoff2", "posting"}

ProcCancelled(t) ==
  /\ proc[t].pc \in Suspended
  /\ sent' = {}
  /\ reply' = NoReply
  /\ UNCHANGED <<current_metadata, current_settings, registered_clients,
                 heartbeat_tasks, tasks, calls, issued, raw, parsed, shutdown, dummy>>
  /\ Cancelled(t, zmq, proc, triggers)

\* the image id recorded for a successful acquisition
image_id(trigger_id, plant_id, image_dir) ==
  IF plant_id # None /\ image_dir # None THEN plant_id \o <<"_">> \o image_dir
  ELSE <<"img_", trigger_id>>

\* the record after a decoded reply
Outcome(rec, error, plant_id, image_dir) ==
  IF error = SUCCESS
  THEN [rec EXCEPT !.status = "finished",
                   !.image_id = image_id(rec.id, plant_id, image_dir),
                   !.image_dir = image_dir, !.error = NoError]
  ELSE [rec EXCEPT !.status = "error", !.error = CodeError(error)]

\* the reply arrives: it is decoded, the record updated, the fan-out started
ProcReply(t, response) ==
  /\ proc[t].pc = "recv"
  /\ ~proc[t].closed
  /\ zmq.req # ""
  /\ sent' = {}
  /\ reply' = NoReply
  /\ UNCHANGED <<current_metadata, current_settings, registered_clients,
                 heartbeat_tasks, tasks, calls, issued, raw, parsed, shutdown, dummy>>
  /\ LET res == parse_response(response)
         error == res[1]
         plant_id == IF res[2] = None THEN triggers[t].plant_id ELSE res[2]
         image_dir == res[3]
         tr1 == [triggers EXCEPT ![t] = Outcome(@, error, plant_id, image_dir)]
     IN Notify(t, [zmq EXCEPT !.req = ""],
               [proc EXCEPT ![t].response = response], tr1, 1, plant_id,
               IF error = SUCCESS THEN image_dir ELSE None)

\* a post of the fan-out completes (ok: a 2xx answer) and the loop over
\* registered_clients.items() takes its next step
ProcPosted(t, ok) ==
  /\ proc[t].pc = "posting"
  /\ sent' = {Event("ImageAcquisition", proc[t].target.name, proc[t].target.uri,
                    ok, proc[t].target.payload)}
  /\ reply' = NoReply
  /\ UNCHANGED <<current_metadata, current_settings, registered_clients,
                 heartbeat_tasks, tasks, calls, issued, raw, parsed, shutdown, dummy>>
  /\ LET n == DictNext(registered_clients, proc[t].it)
     IN IF n.r = "item"
        THEN /\ proc' = [proc EXCEPT ![t].it = n.it,
                           ![t].target = Target(registered_clients, n.i,
                                                proc[t].payload)]
             /\ UNCHANGED <<zmq, triggers>>
        ELSE IF n.r = "RuntimeError" /\ proc[t].phase = 1
        THEN Except(t, zmq, proc, triggers, "dictionary changed size during iteration")
        ELSE Finish(t, zmq, proc, triggers)

\* -------------------------------------------------------- DummyHuginServer
ErrorRates == {0, 20, 100}
\* a request is a YAML document, text that is not YAML, or bytes that are not
\* UTF-8
RequestKinds == {"yaml", "invalid", "undecodable"}

DigitOf(d) == CHOOSE c \in Digits : DigitVal(c) = d

\* the decimal text of a natural number, as an f-string formats it
RECURSIVE Decimal(_)
Decimal(n) ==
  IF n < 10 THEN <<DigitOf(n)>> ELSE Append(Decimal(n \div 10), DigitOf(n % 10))

\* the values _generate_random_error can return
_generate_random_error ==
  {MAIN_CORRUPT, THREE_D0_CORRUPT, THREE_D1_CORRUPT, THREE_D2_CORRUPT,
   THERMAL_CORRUPT, RESET_TIMEOUT, REBOOT_TIMEOUT, FATAL_UNKNOWN,
   THREE_D0_CORRUPT + THREE_D1_CORRUPT + THREE_D2_CORRUPT}

\* start(): the socket is bound, the task created
start ==
  /\ dummy.task = "None"
  /\ dummy.stop = "idle"
  /\ dummy' = [dummy EXCEPT !.running = TRUE, !.task = "Task", !.pc = "created"]
  /\ UNCHANGED <<apiVars, raw, parsed>>

\* stop() up to "await self.task", or to its return when there is no task or
\* the task is done
stop ==
  /\ dummy.running
  /\ dummy.stop = "idle"
  /\ dummy' = IF dummy.task = "None" \/ dummy.pc = "done"
              THEN [dummy EXCEPT !.running = FALSE, !.socket = FALSE,
                                 !.stop = "returned"]
              ELSE [dummy EXCEPT !.running = FALSE, !.stop = "awaiting"]
  /\ UNCHANGED <<apiVars, raw, parsed>>

\* stop() after "await self.task": the socket is closed
stop_resumes ==
  /\ dummy.stop = "awaiting"
  /\ dummy.pc = "done"
  /\ dummy' = [dummy EXCEPT !.socket = FALSE, !.stop = "returned"]
  /\ UNCHANGED <<apiVars, raw, parsed>>

\* a REQ peer sends a request: it waits in the REP socket's queue
DummyRequest(kind) ==
  /\ dummy.task = "Task"
  /\ dummy.socket
  /\ dummy.received + Len(dummy.queue) < MaxRequests
  /\ dummy' = [dummy EXCEPT !.queue = Append(@, kind)]
  /\ UNCHANGED <<apiVars, raw, parsed>>

send_string_twice(d, text) == [d EXCEPT !.replies = @ + 2, !.reply = text]

\* socket.send_string on the REP socket
send_string(d, text) == [d EXCEPT !.replies = @ + 1, !.reply = text]

\* the test of "while self.running"
WhileRunning(d) == [d EXCEPT !.pc = IF d.running THEN "recv" ELSE "done"]

\* the task's first step
DummyTaskStart ==
  /\ dummy.pc = "created"
  /\ dummy' = WhileRunning(dummy)
  /\ UNCHANGED <<apiVars, raw, parsed>>

\* recv_string returns: the request is refused at once (128) or the
\* processing delay begins
DummyRecv ==
  /\ dummy.pc = "recv"
  /\ dummy.queue # <<>>
  /\ LET kind == Head(dummy.queue)
         d == [dummy EXCEPT !.queue = Tail(@), !.received = @ + 1,
                            !.request = kind, !.simulated = FALSE, !.error = 0]
     IN dummy' =
          CASE kind = "undecodable" ->
                 WhileRunning(send_string(d, Decimal(FATAL_UNKNOWN)
                                \o <<Blank, "Internal", Blank, "error">>))
            [] kind = "invalid" ->
                 WhileRunning(send_string(d, Decimal(FATAL_UNKNOWN)
                                \o <<Blank, "Invalid", Blank, "YAML">>))
            [] OTHER -> [d EXCEPT !.pc = "sleep"]
  /\ UNCHANGED <<apiVars, raw, parsed>>

\* the delay ends: random.random() < error_rate decides between an error
\* reply and "0 Success"
DummyReply(simulate, error) ==
  /\ dummy.pc = "sleep"
  /\ simulate => dummy.error_rate > 0
  /\ ~simulate => dummy.error_rate < 100
  /\ dummy' =
       IF simulate
       THEN WhileRunning(send_string([dummy EXCEPT !.simulated = TRUE,
                                                   !.error = error],
                                     Decimal(error) \o <<Blank, "Error">>))
       ELSE WhileRunning(send_string(dummy, Decimal(SUCCESS)
                                              \o <<Blank, "Success">>))
  /\ UNCHANGED <<apiVars, raw, parsed>>

_process_requests ==
  \/ DummyTaskStart
  \/ DummyRecv
  \/ \E simulate \in BOOLEAN, error \in _generate_random_error :
       DummyReply(simulate, error)

\* the replacement of _process_requests that echoes the plant id of the
\* request: f"0 {plant_id} {directory}"
custom_process(message, directory) ==
  <<"0", Blank>> \o message.plant_id \o <<Blank>> \o directory

\* ------------------------------------------------------------ specification
MetadataInputs == {[PlantId |-> p, ExperimentId |-> <<"e1">>] : p \in PlantIds}
FirstMetadata == [PlantId |-> <<"pA">>, ExperimentId |-> <<"e1">>]
\* registrations without a heartbeat, including the invalid ones
PlainRegistrations ==
  [ClientName : ClientNames \cup {""}, Uri : Uris, SendPathInfo : BOOLEAN,
   SendData : {FALSE}, HeartBeatInterval : {0}]
\* valid registrations with and without a heartbeat
HeartbeatRegistrations ==
  [ClientName : ClientNames, Uri : {GoodUri}, SendPathInfo : {TRUE},
   SendData : {FALSE}, HeartBeatInterval : {0, 500}]
\* registrations with and without a heartbeat, including the invalid ones
AnyRegistrations ==
  [ClientName : ClientNames \cup {""}, Uri : Uris, SendPathInfo : {TRUE},
   SendData : {FALSE}, HeartBeatInterval : {0, 500}]
FirstRegistration ==
  [ClientName |-> "a", Uri |-> GoodUri, SendPathInfo |-> TRUE,
   SendData |-> FALSE, HeartBeatInterval |-> 0]
\* the replies of the fan-out specification
FewReplies ==
  { <<"0", Blank, "Success">>, <<"1", "4", Blank, "Error">>,
    <<"0", Blank, "pA", Blank, "d1">>, <<"garbage">> }

T == 1..(MaxTriggers + 1)
K == 1..(MaxTasks + 1)

\* process_trigger up to the decoded reply, with every fault of the link
exchange(t) ==
  \/ \E stale, ok1, ok2, reachable \in BOOLEAN : ProcSend(t, stale, ok1, ok2, reachable)
  \/ \E ok \in BOOLEAN : ProcBackoff1(t, ok)
  \/ ProcBackoff2(t)
  \/ \E ok \in BOOLEAN : ProcSendTaken(t, ok)
  \/ \E ok \in BOOLEAN : ProcTimeout(t, ok)
  \/ \E cancelled, ok \in BOOLEAN : ProcSocketClosed(t, cancelled, ok)
  \/ \E response \in Replies : ProcReply(t, response)

\* process_trigger, the fan-out included
process_trigger(t) ==
  \/ exchange(t)
  \/ \E ok \in BOOLEAN : ProcPosted(t, ok)

\* the exchange on a link whose socket.connect never fails and whose backend
\* is reachable
exchange_connected(t) ==
  \/ \E stale \in BOOLEAN : ProcSend(t, stale, TRUE, TRUE, TRUE)
  \/ ProcTimeout(t, TRUE)
  \/ \E cancelled \in BOOLEAN : ProcSocketClosed(t, cancelled, TRUE)
  \/ \E response \in FewReplies : ProcReply(t, response)

\* Spec: submissions, the fan-out and the subscriber registry
Next ==
  \/ set_metadata(FirstMetadata)
  \/ \E p \in PlantIds : trigger(p)
  \/ \E rd \in PlainRegistrations : register(rd)
  \/ \E n \in ClientNames : unregister(n)
  \/ \E t \in T : exchange_connected(t)
  \/ \E t \in T, ok \in BOOLEAN : ProcPosted(t, ok)

Spec == Init /\ [][Next]_vars

\* SpecLink: submissions on a faulty link, no subscribers
NextLink ==
  \/ set_metadata(FirstMetadata)
  \/ \E p \in PlantIds : trigger(p)
  \/ \E t \in T : exchange(t)

SpecLink == Init /\ [][NextLink]_vars

\* SpecRetry: SpecLink with enough submissions for the reconnect counter to
\* reach its maximum
NextRetry ==
  \/ set_metadata(FirstMetadata)
  \/ submit(<<"pA">>, MaxLinkTriggers)
  \/ \E t \in T : exchange(t)

SpecRetry == Init /\ [][NextRetry]_vars

\* SpecSerial: SpecRetry with a client that submits a trigger only when no
\* process_trigger coroutine is under way
Idle == \A t \in T : proc[t].pc \in {"none", "done"}

\* the exchange of a coroutine that is alone on the link: no other coroutine
\* closes the socket it waits on
exchange_alone(t) ==
  \/ \E stale, ok1, ok2, reachable \in BOOLEAN : ProcSend(t, stale, ok1, ok2, reachable)
  \/ \E ok \in BOOLEAN : ProcBackoff1(t, ok)
  \/ ProcBackoff2(t)
  \/ \E ok \in BOOLEAN : ProcSendTaken(t, ok)
  \/ \E ok \in BOOLEAN : ProcTimeout(t, ok)
  \/ \E response \in Replies : ProcReply(t, response)

NextSerial ==
  \/ set_metadata(FirstMetadata)
  \/ Idle /\ submit(<<"pA">>, MaxLinkTriggers)
  \/ \E t \in T : exchange_alone(t)

SpecSerial == Init /\ [][NextSerial]_vars

\* SpecFrame: every handler that can run beside a process_trigger coroutine,
\* with one subscriber at most
NextFrame ==
  \/ \E m \in MetadataInputs : set_metadata(m)
  \/ \E s \in settings_files : set_settings(s)
  \/ \E p \in PlantIds : trigger(p)
  \/ register(FirstRegistration)
  \/ unregister("a")
  \/ get_status
  \/ get_status_for_id(TriggerIds[1])
  \/ get_image_id(TriggerIds[1])
  \/ \E t \in T : exchange_connected(t)
  \/ \E t \in T, ok \in BOOLEAN : ProcPosted(t, ok)

SpecFrame == Init /\ [][NextFrame]_vars

\* SpecFacade: the metadata, settings, trigger and status handlers, no subscribers
NextFacade ==
  \/ \E m \in MetadataInputs : set_metadata(m)
  \/ \E s \in settings_files \cup {<<"missing">>} : set_settings(s)
  \/ \E p \in PlantIds : trigger(p)
  \/ \E i \in T : get_status_for_id(TriggerIds[i])
  \/ \E t \in T : exchange_connected(t)

SpecFacade == Init /\ [][NextFacade]_vars

\* SpecQuery: submissions and the handlers that read the trigger records
NextQuery ==
  \/ set_metadata(FirstMetadata)
  \/ \E p \in PlantIds : trigger(p)
  \/ get_status
  \/ \E i \in T : get_status_for_id(TriggerIds[i])
  \/ \E i \in T : get_image_id(TriggerIds[i])
  \/ \E t \in T : exchange_connected(t)

SpecQuery == Init /\ [][NextQuery]_vars

\* SpecHeartbeat: the registry and the heartbeat tasks
NextHeartbeat ==
  \/ \E rd \in AnyRegistrations : register(rd)
  \/ \E n \in ClientNames : unregister(n)
  \/ \E k \in K : HeartbeatPost(k)
  \/ \E k \in K, ok \in BOOLEAN : HeartbeatPosted(k, ok)
  \/ \E k \in K : HeartbeatCancelled(k)

SpecHeartbeat == Init /\ [][NextHeartbeat]_vars

\* SpecHeartbeatFair: SpecHeartbeat with every heartbeat task being run: its
\* post ends (the session has a time-out) and its sleep ends
_heartbeat_loop(k) ==
  \/ HeartbeatPost(k)
  \/ \E ok \in BOOLEAN : HeartbeatPosted(k, ok)
  \/ HeartbeatCancelled(k)

SpecHeartbeatFair ==
  Init /\ [][NextHeartbeat]_vars /\ \A k \in K : WF_vars(_heartbeat_loop(k))

\* SpecMoved: SpecHeartbeat with valid registrations only, at either of two
\* callback URIs
MovedRegistrations ==
  [ClientName : ClientNames, Uri : {GoodUri, OtherUri}, SendPathInfo : {TRUE},
   SendData : {FALSE}, HeartBeatInterval : {0, 500}]

NextMoved ==
  \/ \E rd \in MovedRegistrations : register(rd)
  \/ \E n \in ClientNames : unregister(n)
  \/ \E k \in K : _heartbeat_loop(k)

SpecMoved == Init /\ [][NextMoved]_vars

\* SpecShutdown: the registry and the heartbeat tasks of a server that is
\* shut down; it handles no request once the shutdown has begun
NextShutdown ==
  \/ shutdown = "running" /\ \E rd \in HeartbeatRegistrations : register(rd)
  \/ shutdown = "running" /\ \E n \in ClientNames : unregister(n)
  \/ \E k \in K : HeartbeatPost(k)
  \/ \E k \in K, ok \in BOOLEAN : HeartbeatPosted(k, ok)
  \/ \E k \in K : HeartbeatCancelled(k)
  \/ close_gather
  \/ close

SpecShutdown == Init /\ [][NextShutdown]_vars

\* SpecCodec: parse_response applied to every reply of at most MaxLen atoms
Alphabet == {"0", "1", "4", Blank, "p", BAD}

RECURSIVE TextsUpTo(_)
TextsUpTo(n) ==
  IF n = 0 THEN {<<>>}
  ELSE LET shorter == TextsUpTo(n - 1)
       IN shorter \cup {Append(s, c) : s \in shorter, c \in Alphabet}

InitCodec ==
  /\ InitApi
  /\ raw \in TextsUpTo(MaxLen)
  /\ parsed = NotParsed
  /\ dummy = DummyHuginServer(20)

Decode ==
  /\ parsed = NotParsed
  /\ parsed' = parse_response(raw)
  /\ UNCHANGED <<apiVars, raw, dummy>>

SpecCodec == InitCodec /\ [][Decode]_vars

\* SpecFair: SpecLink with one subscriber at most, every scheduled
\* process_trigger coroutine being run until it ends
NextFair ==
  \/ set_metadata(FirstMetadata)
  \/ \E p \in PlantIds : trigger(p)
  \/ register(FirstRegistration)
  \/ unregister("a")
  \/ \E t \in T : process_trigger(t)

SpecFair ==
  Init /\ [][NextFair]_vars /\ \A t \in T : WF_vars(process_trigger(t))

\* SpecCancel: SpecFair's steps without fairness, and the cancellation of a
\* running process_trigger at any of its awaits
NextCancel ==
  \/ set_metadata(FirstMetadata)
  \/ \E p \in PlantIds : trigger(p)
  \/ register(FirstRegistration)
  \/ unregister("a")
  \/ \E t \in T : process_trigger(t)
  \/ \E t \in T : ProcCancelled(t)

SpecCancel == Init /\ [][NextCancel]_vars

\* SpecDummy: the dummy backend, started, sent requests and stopped
InitDummy ==
  /\ InitApi
  /\ raw = <<>>
  /\ parsed = NotParsed
  /\ \E r \in ErrorRates : dummy = DummyHuginServer(r)

NextDummy ==
  \/ start
  \/ stop
  \/ stop_resumes
  \/ \E kind \in RequestKinds : DummyRequest(kind)
  \/ _process_requests

SpecDummy == InitDummy /\ [][NextDummy]_vars

\* SpecDummyFair: SpecDummy with the event loop running the server task and
\* stop() whenever they can continue; no request has to arrive
SpecDummyFair ==
  /\ InitDummy
  /\ [][NextDummy]_vars
  /\ WF_vars(_process_requests)
  /\ WF_vars(stop_resumes)

\* SpecRoundTrip: a plant id is stored, sent to a backend that echoes it and
\* decoded from the reply
PlantAlphabet == {"p", "1", Blank}

RECURSIVE PlantTexts(_)
PlantTexts(n) ==
  IF n = 0 THEN {<<>>}
  ELSE LET shorter == PlantTexts(n - 1)
       IN shorter \cup {Append(s, c) : s \in shorter, c \in PlantAlphabet}

RoundTripMetadata ==
  {[PlantId |-> p, ExperimentId |-> <<"e1">>] : p \in PlantTexts(MaxPlantLen)}

RoundTrip(directory) ==
  /\ current_metadata # NoMetadata
  /\ raw' = custom_process(prepare_zmq_message(current_metadata, current_settings),
                           directory)
  /\ parsed' = parse_response(raw')
  /\ UNCHANGED <<apiVars, dummy>>

NextRoundTrip ==
  \/ \E m \in RoundTripMetadata : set_metadata(m)
  \/ RoundTrip(<<"d1">>)

SpecRoundTrip == Init /\ [][NextRoundTrip]_vars

\* ------------------------------------------------------------------ claims
Terminal == {"finished", "error"}

\* C1: every submitted trigger eventually reaches finished or error,
\* whatever the backend does, when its process_trigger coroutine is run.
C1_EventuallyTerminal ==
  \A i \in T :
    (Len(triggers) >= i) ~> (Len(triggers) >= i /\ triggers[i].status \in Terminal)

C1_Witness ==
  /\ Len(triggers) >= 2
  /\ triggers[1].error = TextError("Unexpected state")
  /\ triggers[2].status = "finished"

\* C2: once trigger has returned an id with Type Success, get_status_for_id
\* never answers "invalid" for it: it answers busy, finished or error.
C2_NeverInvalid ==
  /\ \A id \in issued : StatusForId(triggers, id) \in {"busy"} \cup Terminal
  /\ (reply.op = "get_status_for_id" /\ reply.arg[1] \in issued) =>
       reply.MessageText \in {"busy"} \cup Terminal

C2_Witness ==
  /\ reply.op = "get_status_for_id"
  /\ reply.arg[1] \in issued
  /\ reply.MessageText = "busy"
  /\ \E id \in issued : StatusForId(triggers, id) = "finished"

\* C3: a record that is finished or error is never busy again, in any step
\* of any handler or coroutine.
C3_NeverBusyAgain ==
  [][\A i \in 1..Len(triggers) :
       triggers[i].status \in Terminal => triggers'[i].status \in Terminal]_vars

C3_Witness ==
  \E i \in 1..Len(triggers) :
    /\ triggers[i].image_id # None
    /\ triggers[i].status = "error"
    /\ proc[i].pc = "posting"

\* C4: once process_trigger has recorded finished, the record's status,
\* image_id and error stay as recorded whatever happens during the fan-out.
C4_OutcomeKept ==
  [][\A i \in 1..Len(triggers) :
       triggers[i].status = "finished" =>
         /\ triggers'[i].status = "finished"
         /\ triggers'[i].image_id = triggers[i].image_id
         /\ triggers'[i].error = triggers[i].error]_vars

\* C5: every ImageAcquisition notification carries the id of a trigger, the
\* plant id that trigger was submitted for and Status success or error.
C5_PayloadOfTrigger ==
  \A e \in sent :
    e.Type = "ImageAcquisition" =>
      /\ TriggerIdx(triggers, e.payload.TriggerId) # 0
      /\ e.payload.PlantId = triggers[TriggerIdx(triggers, e.payload.TriggerId)].plant_id
      /\ e.payload.Status \in {"success", "error"}

\* C6: while the latest registration of a client has HeartBeatInterval 0, no
\* heartbeat is sent for that client.
C6_NoHeartbeatAfterZero ==
  \A e \in sent :
    e.Type = "Heartbeat" =>
      ~(/\ e.to \in DictKeys(registered_clients)
        /\ DictGet(registered_clients, e.to).HeartBeatInterval = 0)

\* C7: nothing is delivered to a client that has been unregistered and has
\* not registered again.
C7_NoDeliveryAfterUnregister ==
  \A e \in sent : e.ok => e.to \in DictKeys(registered_clients)

\* C8: when unregister returns Success, the heartbeat task of the client is
\* done.
C8_TaskDoneAtReturn ==
  (reply.op = "unregister" /\ reply.Type = "Success") =>
     \/ heartbeat_tasks[reply.arg[1]] = 0
     \/ TaskDone(heartbeat_tasks[reply.arg[1]])

\* C9: no send is issued on the link while an earlier send waits for its
\* reply.  The REQ socket answers exactly such a send with EFSM, so the claim
\* says that no coroutine ever holds that error.
C9_NoSendWhileWaiting ==
  \A i \in 1..Len(triggers) :
    /\ proc[i].err # "EFSM"
    /\ triggers[i].error # TextError("EFSM")

\* The tokens of a text, read off its positions: a token starts at a
\* non-blank atom that is first or follows a blank, and runs to the atom
\* before the next blank.
TokenStarts(s) ==
  {i \in 1..Len(s) : s[i] # Blank /\ (i = 1 \/ s[i - 1] = Blank)}
TokenEnd(s, i) ==
  CHOOSE j \in i..Len(s) :
    /\ \A m \in i..j : s[m] # Blank
    /\ (j = Len(s) \/ s[j + 1] = Blank)
NthStart(s, n) ==
  CHOOSE i \in TokenStarts(s) : Cardinality({j \in TokenStarts(s) : j < i}) = n - 1
NthToken(s, n) ==
  IF Cardinality(TokenStarts(s)) < n THEN None
  ELSE SubSeq(s, NthStart(s, n), TokenEnd(s, NthStart(s, n)))
\* the number a run of digits denotes
RECURSIVE Pow10(_)
Pow10(n) == IF n = 0 THEN 1 ELSE 10 * Pow10(n - 1)
RECURSIVE DigitSum(_, _)
DigitSum(tok, i) ==
  IF i > Len(tok) THEN 0
  ELSE DigitVal(tok[i]) * Pow10(Len(tok) - i) + DigitSum(tok, i + 1)
FirstIsInteger(s) ==
  /\ TokenStarts(s) # {}
  /\ \A i \in 1..Len(NthToken(s, 1)) : NthToken(s, 1)[i] \in Digits

\* C10: on a reply that decodes as UTF-8 and whose first whitespace-separated
\* token is a run of decimal digits, parse_response returns the number the
\* token denotes, the second token or None and the third token or None;
\* "0 plantA ImageSet_x" gives (SUCCESS, plantA, ImageSet_x) and "14 " gives
\* (THREE_D0|THREE_D1|THREE_D2 = 14, None, None).
C10_ParseInteger ==
  /\ (parsed # NotParsed /\ Decodable(raw) /\ FirstIsInteger(raw)) =>
        parsed = <<DigitSum(NthToken(raw, 1), 1), NthToken(raw, 2), NthToken(raw, 3)>>
  /\ parsed # NotParsed =>
        /\ parse_response(<<"0", Blank, "plantA", Blank, "ImageSet_x">>)
             = <<SUCCESS, <<"plantA">>, <<"ImageSet_x">>>>
        /\ parse_response(<<"1", "4", Blank>>)
             = <<THREE_D0_CORRUPT + THREE_D1_CORRUPT + THREE_D2_CORRUPT, None, None>>

\* C10 as stated, for every reply whose first token is an integer: a reply
\* with an undecodable byte after the integer is answered with
\* (FATAL_UNKNOWN, None, None).
C10_AnyReply ==
  (parsed # NotParsed /\ FirstIsInteger(raw)) =>
     parsed = <<DigitSum(NthToken(raw, 1), 1), NthToken(raw, 2), NthToken(raw, 3)>>

C10_Witness ==
  /\ raw = <<"1", "4", Blank, "p", Blank, "p">>
  /\ parsed = <<14, <<"p">>, <<"p">>>>

\* C11: a reply that is empty, blank or whose first token is not an integer
\* is decoded as (FATAL_UNKNOWN, None, None), and the trigger that received
\* it ends in status error with error code 128.
C11_MalformedIsFatal ==
  \A i \in 1..Len(triggers) :
    (proc[i].response # None /\ ~FirstIsInteger(proc[i].response)) =>
       /\ parse_response(proc[i].response) = <<FATAL_UNKNOWN, None, None>>
       /\ proc[i].pc = "done" =>
            /\ triggers[i].status = "error"
            /\ triggers[i].error = CodeError(FATAL_UNKNOWN)

\* C12: trigger with a plant id different from the PlantId of the stored
\* metadata returns a Warning with no values, creates no record, schedules no
\* processor and leaves the backend link alone.
C12_MismatchWarns ==
  [][(/\ reply'.op = "trigger"
      /\ current_metadata # NoMetadata
      /\ reply'.arg # current_metadata.PlantId) =>
        /\ reply'.Type = "Warning"
        /\ reply'.Values = <<>>
        /\ UNCHANGED <<triggers, proc, zmq, issued>>]_vars

C12_Witness ==
  /\ reply.op = "trigger"
  /\ reply.Type = "Warning"
  /\ reply.arg # current_metadata.PlantId
  /\ Len(triggers) = 1
  /\ proc[1].pc = "recv"

\* C13: trigger while no metadata was ever set returns an Error with no
\* values and leaves state.triggers unchanged; every record was stored under
\* metadata whose PlantId is the submitted plant id.
C13_NoMetadataError ==
  [][/\ (reply'.op = "trigger" /\ current_metadata = NoMetadata) =>
          /\ reply'.Type = "Error"
          /\ reply'.Values = <<>>
          /\ UNCHANGED <<triggers, proc, issued>>
     /\ \A i \in 1..Len(triggers') :
          /\ triggers'[i].metadata # NoMetadata
          /\ triggers'[i].metadata.PlantId = triggers'[i].plant_id]_vars

C13_Witness ==
  /\ reply.op = "trigger"
  /\ reply.Type = "Error"
  /\ current_metadata = NoMetadata
  /\ triggers = <<>>

\* C14: get_image_id returns exactly one non-empty image id with Type Success
\* if and only if the trigger's status is finished; for an unknown id, a busy
\* trigger or an error trigger it returns Type Error with no values.
C14_ImageIdIffFinished ==
  reply.op = "get_image_id" =>
    LET i == TriggerIdx(triggers, reply.arg[1])
    IN IF i # 0 /\ triggers[i].status = "finished"
       THEN /\ reply.Type = "Success"
            /\ Len(reply.Values) = 1
            /\ reply.Values[1] \notin {None, <<>>}
            /\ reply.Values[1] = triggers[i].image_id
       ELSE reply.Type = "Error" /\ reply.Values = <<>>

C14_Witness ==
  /\ reply.op = "get_image_id"
  /\ reply.Type = "Success"
  /\ reply.Values = <<<<"pA", "_", "d1">>>>
  /\ \E i \in 1..Len(triggers) : triggers[i].status = "error"

\* C17: set_settings(name) returns Success and makes name the current
\* settings when name is in the known settings list; otherwise it returns
\* Error and leaves the current settings unchanged.
C17_SettingsValidated ==
  [][reply'.op = "set_settings" =>
       IF reply'.arg \in settings_files
       THEN reply'.Type = "Success" /\ current_settings' = reply'.arg
       ELSE reply'.Type = "Error" /\ current_settings' = current_settings]_vars

C17_Witness ==
  /\ reply.op = "set_settings"
  /\ reply.Type = "Error"
  /\ reply.arg = <<"missing">>
  /\ current_settings = <<"s1">>

\* C20: get_status answers idle with no values exactly when no record is
\* busy; otherwise it answers busy with the id of a record that is busy.
C20_StatusIdleOrBusy ==
  reply.op = "get_status" =>
    IF \A i \in 1..Len(triggers) : triggers[i].status # "busy"
    THEN reply.MessageText = "idle" /\ reply.Values = <<>>
    ELSE /\ reply.MessageText = "busy"
         /\ Len(reply.Values) = 1
         /\ \E i \in 1..Len(triggers) :
              triggers[i].id = reply.Values[1][1] /\ triggers[i].status = "busy"

C20_Witness ==
  /\ reply.op = "get_status"
  /\ reply.MessageText = "busy"
  /\ reply.Values = <<<<"t2">>>>
  /\ triggers[1].status = "finished"

\* C15: when APIState.close has returned, every heartbeat task that existed
\* is done, the backend link is closed (not connected, no socket) and no
\* heartbeat is sent.
C15_ShutdownStopsAll ==
  shutdown = "closed" =>
    /\ \A k \in 1..Len(tasks) : tasks[k].pc = "done"
    /\ ~zmq.connected
    /\ ~zmq.socket
    /\ \A e \in sent : e.Type # "Heartbeat"

C15_Witness ==
  /\ shutdown = "closed"
  /\ Len(tasks) = 2
  /\ tasks[1].name = "a"
  /\ tasks[2].name = "a"
  /\ "a" \in DictKeys(registered_clients)
  /\ DictGet(registered_clients, "a").HeartBeatInterval = 0

\* C16: after a successful register with HeartBeatInterval > 0 a Heartbeat
\* event (Status alive) is eventually sent to the client's URI unless the
\* client stops being registered, and a heartbeat loop posts before it first
\* waits.
HeartbeatSentTo(n) ==
  \E e \in sent :
    /\ e.Type = "Heartbeat"
    /\ e.to = n
    /\ e.uri = GoodUri
    /\ e.payload.Status = "alive"

C16_HeartbeatEventually ==
  /\ \A n \in ClientNames :
       (/\ reply.op = "register"
        /\ reply.Type = "Success"
        /\ reply.arg[1] = n
        /\ n \in DictKeys(registered_clients)
        /\ DictGet(registered_clients, n).HeartBeatInterval > 0)
         ~> (HeartbeatSentTo(n) \/ n \notin DictKeys(registered_clients))
  /\ [][\A k \in 1..Len(tasks) :
          (tasks[k].pc # "sleeping" /\ tasks'[k].pc = "sleeping") =>
             /\ tasks[k].pc = "posting"
             /\ \E e \in sent' : e.Type = "Heartbeat" /\ e.to = tasks[k].name]_vars

C16_Witness ==
  /\ "a" \in DictKeys(registered_clients)
  /\ DictGet(registered_clients, "a").HeartBeatInterval = 500
  /\ HeartbeatSentTo("a")
  /\ \E k \in 1..Len(tasks) : tasks[k].name = "a" /\ tasks[k].pc = "sleeping"

\* C18: register with an empty client name, an empty URI or a URI without
\* scheme or host returns Error, adds no subscriber and starts no heartbeat
\* task; otherwise it returns Success and the name is in registered_clients.
C18_RegisterValidated ==
  [][(reply'.op = "register" /\ calls' # calls) =>
       IF reply'.arg[1] = "" \/ reply'.arg[2] \in {"", "nohost"}
       THEN /\ reply'.Type = "Error"
            /\ UNCHANGED <<registered_clients, heartbeat_tasks, tasks>>
       ELSE /\ reply'.Type = "Success"
            /\ reply'.arg[1] \in DictKeys(registered_clients')]_vars

C18_Witness ==
  /\ reply.op = "register"
  /\ reply.Type = "Error"
  /\ reply.arg = <<"a", "nohost">>
  /\ "a" \in DictKeys(registered_clients)
  /\ Len(tasks) = 1
  /\ tasks[1].pc = "sleeping"

\* C19: unregister of a registered client returns Success and the client is
\* no longer in registered_clients; unregister of a name that is not
\* registered returns Error and changes neither registered_clients nor any
\* heartbeat task.
C19_UnregisterChecked ==
  [][(reply'.op = "unregister" /\ calls' # calls) =>
       IF reply'.arg[1] \in DictKeys(registered_clients)
       THEN /\ reply'.Type = "Success"
            /\ reply'.arg[1] \notin DictKeys(registered_clients')
       ELSE /\ reply'.Type = "Error"
            /\ UNCHANGED <<registered_clients, heartbeat_tasks, tasks>>]_vars

C19_Witness ==
  /\ reply.op = "unregister"
  /\ reply.Type = "Error"
  /\ reply.arg = <<"a">>
  /\ DictKeys(registered_clients) = {}
  /\ Len(tasks) = 1
  /\ tasks[1].name = "a"
  /\ tasks[1].cancel

\* C21: the plant id of the metadata, carried by the request and echoed by
\* the backend as the second token of its reply, is the plant id that
\* parse_response returns.
C21_PlantIdRoundTrip ==
  [][parsed' # parsed =>
       parsed'[2] = prepare_zmq_message(current_metadata, current_settings).plant_id]_vars

\* C22: stop() on a started server eventually returns, whether or not a
\* request arrives, and once it has returned running is false and task is
\* None.
C22_StopCompletes ==
  /\ (dummy.stop = "awaiting") ~> (dummy.stop = "returned")
  /\ [](dummy.stop = "returned" => ~dummy.running /\ dummy.task = "None")

\* C23: the dummy backend sends exactly one reply to each request before it
\* receives the next one, and the first token of the reply is an integer: 0
\* when no error is simulated (always with error_rate 0), the non-zero
\* generated error when one is simulated (always with error_rate 1), and 128
\* when the request is not valid YAML.
C23_OneIntegerReply ==
  /\ dummy.replies <= dummy.received
  /\ dummy.received <= dummy.replies + 1
  /\ dummy.pc = "recv" => dummy.replies = dummy.received
  /\ (dummy.received > 0 /\ dummy.replies = dummy.received) =>
       LET token == Split(dummy.reply)[1]
       IN /\ IsInt(token)
          /\ IntOf(token) =
               CASE dummy.request = "yaml" /\ ~dummy.simulated -> 0
                 [] dummy.request = "yaml" /\ dummy.simulated -> dummy.error
                 [] OTHER -> 128
          /\ dummy.simulated => IntOf(token) # 0
          /\ (dummy.request = "yaml" /\ dummy.error_rate = 0) => IntOf(token) = 0
          /\ (dummy.request = "yaml" /\ dummy.error_rate = 100) => IntOf(token) # 0

C23_Witness ==
  /\ dummy.received = 2
  /\ dummy.replies = 2
  /\ dummy.request = "yaml"
  /\ dummy.simulated
  /\ dummy.reply = <<"1", "4", Blank, "Error">>

\* C24: when a process_trigger run ends, by return, by an exception or by a
\* cancellation at an await, the record of its trigger is finished or error;
\* a run that ends while the record is still busy (it set no terminal state
\* itself) leaves it in error with error "Unexpected state", and no other
\* run does.
C24_EndsNotBusy ==
  [][\A t \in T :
       (t <= Len(triggers) /\ proc[t].pc # "done" /\ proc'[t].pc = "done") =>
         /\ triggers'[t].status \in Terminal
         /\ (triggers[t].status = "busy" /\ proc'[t].err = "CancelledError")
              => triggers'[t] = [triggers[t] EXCEPT
                                   !.status = "error",
                                   !.error = TextError("Unexpected state")]
         /\ triggers'[t].error = TextError("Unexpected state")
              => triggers[t].status = "busy" /\ proc'[t].err = "CancelledError"]_vars

C24_Witness ==
  \E t \in T :
    /\ t <= Len(triggers)
    /\ proc[t].pc = "done"
    /\ proc[t].err = "CancelledError"
    /\ triggers[t].error = TextError("Unexpected state")
    /\ DictLen(registered_clients) > 0

\* C25: after a process_trigger run that received a reply, the record is the
\* one the decoded reply determines: with bitmask 0 it is finished, error
\* None, image_dir as decoded and image_id "<plant>_<dir>" when both are
\* available, else "img_<trigger id>"; with a non-zero bitmask it is error,
\* error the bitmask and image_id None.
C25_RecordFromReply ==
  \A t \in T :
    (t <= Len(triggers) /\ proc[t].pc = "done" /\ proc[t].response # None) =>
      LET res == parse_response(proc[t].response)
          plant_id == IF res[2] = None THEN triggers[t].plant_id ELSE res[2]
          rec == triggers[t]
      IN IF res[1] = 0
         THEN /\ rec.status = "finished"
              /\ rec.error = NoError
              /\ rec.image_dir = res[3]
              /\ rec.image_id = IF plant_id # None /\ res[3] # None
                                THEN plant_id \o <<"_">> \o res[3]
                                ELSE <<"img_", rec.id>>
         ELSE /\ rec.status = "error"
              /\ rec.error = CodeError(res[1])
              /\ rec.image_id = None

\* C26: when send or receive fails (a time-out of either, no connection
\* after the reconnect), the run does not end with the failure: the record
\* becomes error with the failure's text as error, and the error
\* notification of the trigger is started for the registered subscribers.
LinkFailures == {"EAGAIN", "ENOTCONN", "EFSM", "ENOTSOCK"}

C26_FailureHandled ==
  [][\A t \in T :
       ( /\ t <= Len(triggers)
         /\ proc[t].pc \in {"scheduled", "send_wait", "recv", "backoff1", "backoff2"}
         /\ proc'[t].pc \in {"posting", "done"}
         /\ proc'[t].response = None
         /\ proc'[t].err # "CancelledError" ) =>
         /\ triggers'[t].status = "error"
         /\ triggers'[t].error \in {TextError(e) : e \in LinkFailures}
         /\ (proc[t].pc = "recv" /\ ~proc[t].closed)
              => triggers'[t].error = TextError("EAGAIN")
         /\ proc[t].pc = "backoff1" => triggers'[t].error = TextError("ENOTCONN")
         /\ proc[t].pc = "backoff2" => triggers'[t].error = TextError(proc[t].err)
         /\ IF DictLen(registered_clients) = 0
            THEN proc'[t].pc = "done"
            ELSE /\ proc'[t].pc = "posting"
                 /\ proc'[t].target.name \in DictKeys(registered_clients)
                 /\ proc'[t].target.payload.TriggerId = triggers[t].id
                 /\ proc'[t].target.payload.Status = "error"
                 /\ proc'[t].target.payload.Error = triggers'[t].error]_vars

C26_Witness ==
  \E t \in T :
    /\ t <= Len(triggers)
    /\ proc[t].pc = "posting"
    /\ proc[t].response = None
    /\ triggers[t].error = TextError("EAGAIN")
    /\ proc[t].target.payload.Status = "error"

\* C27: when the fan-out builds the payload for a subscriber, a subscriber
\* registered with SendPathInfo false gets no ImagePath, a subscriber with
\* SendPathInfo true gets the ImagePath whenever the trigger is finished and
\* has an image directory, and within one fan-out the payload the later
\* subscribers' copies are made from is left as it was built.
C27_PathOnlyIfAsked ==
  [][\A t \in T :
       ( /\ t <= Len(triggers)
         /\ proc'[t].pc = "posting"
         /\ proc[t].pc # "posting" \/ proc'[t].it # proc[t].it ) =>
         LET target == proc'[t].target
             client_data == DictGet(registered_clients, target.name)
             rec == triggers'[t]
         IN /\ ~client_data.SendPathInfo => target.payload.ImagePath = None
            /\ (client_data.SendPathInfo /\ rec.status = "finished"
                  /\ rec.image_dir # None)
                 => target.payload.ImagePath = HUGIN_S3_PREFIX \o rec.image_dir
            /\ (proc[t].pc = "posting" /\ proc'[t].phase = proc[t].phase)
                 => proc'[t].payload = proc[t].payload]_vars

C27_Witness ==
  \E t \in T, e \in sent :
    /\ e.Type = "ImageAcquisition"
    /\ e.to = "a"
    /\ e.payload.ImagePath = None
    /\ proc[t].pc = "posting"
    /\ proc[t].target.name = "b"
    /\ proc[t].target.payload.TriggerId = e.payload.TriggerId
    /\ proc[t].target.payload.ImagePath = HUGIN_S3_PREFIX \o <<"d1">>

\* C28: when a delivery of the fan-out fails, the fan-out goes on: every
\* other subscriber registered at that time and not yet served is served
\* next or later, so the next delivery goes to one of them, and the failed
\* one is not repeated.
C28_FailureDoesNotStop ==
  [][\A t \in T :
       ( /\ proc[t].pc = "posting"
         /\ \E e \in sent' : /\ ~e.ok
                             /\ e.to = proc[t].target.name
                             /\ e.payload = proc[t].target.payload ) =>
         LET rest == {i \in DictLive(registered_clients) : i >= proc[t].it.pos}
         IN rest # {} =>
              /\ proc'[t].pc = "posting"
              /\ proc'[t].target.name \in {registered_clients[i].key : i \in rest}]_vars

\* C29: an ImageAcquisition notification of a trigger is built and sent only
\* when the trigger's record is no longer busy, and its Status is success
\* exactly when the record is finished at the moment the payload is built.
C29_NotifiedAfterBusy ==
  [][/\ \A t \in T :
          ( /\ t <= Len(triggers)
            /\ proc'[t].pc = "posting"
            /\ proc[t].pc # "posting" \/ proc'[t].phase # proc[t].phase ) =>
            /\ triggers'[t].status \in Terminal
            /\ proc'[t].payload.TriggerId = triggers'[t].id
            /\ proc'[t].payload.Status \in {"success", "error"}
            /\ proc'[t].payload.Status = "success"
                 <=> triggers'[t].status = "finished"
     /\ \A e \in sent' :
          e.Type = "ImageAcquisition" =>
            \E t \in 1..Len(triggers') :
              /\ triggers'[t].id = e.payload.TriggerId
              /\ triggers'[t].status \in Terminal]_vars

C29_Witness ==
  \E e \in sent, t \in 1..Len(triggers) :
    /\ e.Type = "ImageAcquisition"
    /\ e.payload.TriggerId = triggers[t].id
    /\ e.payload.Status = "success"
    /\ triggers[t].status = "finished"

\* C30: for every client name at most one heartbeat loop is able to send, it
\* is the loop started last for the name, and a heartbeat sent to a
\* registered client goes to the URI of the client's most recent
\* registration.
C30_OneLoopLatestUri ==
  /\ \A k \in 1..Len(tasks) :
       (tasks[k].pc # "done" /\ ~tasks[k].cancel)
         => heartbeat_tasks[tasks[k].name] = k
  /\ \A e \in sent :
       (e.Type = "Heartbeat" /\ e.to \in DictKeys(registered_clients))
         => e.uri = DictGet(registered_clients, e.to).Uri

\* C31: the reconnect counter never exceeds 5; a reconnect called with the
\* counter at 5 returns failure at once, replacing no socket and sleeping not
\* at all; and a send that gets no connection ends with the "not connected"
\* error (ENOTCONN) without its request having been handed to the socket.
C31_ReconnectBounded ==
  [][/\ zmq'.reconnect_attempts <= max_reconnect_attempts
     /\ \A t \in T :
          ( /\ t <= Len(triggers)
            /\ proc[t].pc = "backoff1"
            /\ proc'[t].pc # "backoff1"
            /\ zmq.reconnect_attempts = max_reconnect_attempts ) =>
            /\ zmq' = zmq
            /\ proc'[t].pc = "done"
            /\ \A u \in T : u # t => proc'[u] = proc[u]
     /\ \A t \in T :
          ( /\ t <= Len(triggers)
            /\ triggers[t].status = "busy"
            /\ proc'[t].pc \in {"backoff2", "done"}
            /\ proc[t].pc \in {"scheduled", "backoff1"}
            /\ proc[t].pc = "scheduled" =>
                 (proc'[t].err = "ENOTCONN"
                    \/ triggers'[t].error = TextError("ENOTCONN")) ) =>
            /\ zmq'.req # triggers[t].id
            /\ proc'[t].response = None
            /\ proc'[t].pc = "backoff2" => proc'[t].err = "ENOTCONN"
            /\ proc'[t].pc = "done" => triggers'[t].error = TextError("ENOTCONN")]_vars

C31_Witness ==
  /\ zmq.reconnect_attempts = 5
  /\ ~zmq.connected
  /\ Len(triggers) = 3
  /\ proc[3].pc = "done"
  /\ triggers[3].error = TextError("ENOTCONN")

\* C32: the n-th consecutive failed reconnect attempt, n from 1 to 5, sleeps
\* 2, 4, 8, 16 and 30 seconds before it returns failure, and a successful
\* connection sets n back to 0.
C32_Backoff ==
  [][/\ \A t \in T :
          ( /\ t <= Len(triggers)
            /\ proc'[t].pc \in {"backoff1", "backoff2"}
            /\ proc'[t].pc # proc[t].pc ) =>
            LET n == zmq'.reconnect_attempts
            IN /\ n = zmq.reconnect_attempts + 1
               /\ n \in 1..5
               /\ ~zmq'.connected
               /\ proc'[t].slept = CASE n = 1 -> 2 [] n = 2 -> 4 [] n = 3 -> 8
                                     [] n = 4 -> 16 [] n = 5 -> 30
     /\ (zmq'.connected /\ zmq' # zmq) => zmq'.reconnect_attempts = 0]_vars

C32_Witness ==
  \E t \in T :
    /\ proc[t].pc = "backoff1"
    /\ proc[t].slept = 30
    /\ zmq.reconnect_attempts = 5

\* C40: whenever the link is connected its reconnect counter is 0; the
\* counter is positive only while the link is not connected.
C40_ConnectedMeansZero ==
  zmq.connected => zmq.reconnect_attempts = 0

C40_Witness ==
  /\ zmq.connected
  /\ zmq.reconnect_attempts = 0
  /\ \E t \in T :
       /\ t < Len(triggers)
       /\ triggers[t].error = TextError("ENOTCONN")
       /\ proc[t + 1].pc = "recv"

\* C33: the record of a trigger is created by its submission and changed
\* only by a step of the process_trigger run for its own id: no step of
\* another run and no handler (trigger, set_metadata, set_settings, register,
\* unregister, the status and image-id reads) changes any field of it.
C33_RecordOwned ==
  [][/\ Len(triggers') >= Len(triggers)
     /\ Len(triggers') > Len(triggers) =>
          /\ reply'.op = "trigger"
          /\ Len(triggers') = Len(triggers) + 1
     /\ \A b \in 1..Len(triggers) :
          triggers'[b] # triggers[b] =>
            /\ reply' = NoReply
            /\ proc[b].pc \notin {"none", "done"}
            /\ proc'[b].pc # proc[b].pc \/ proc'[b].phase # proc[b].phase
            /\ \A a \in 1..Len(triggers) : a # b => triggers'[a] = triggers[a]]_vars

C33_Witness ==
  /\ Len(triggers) = 2
  /\ triggers[1].status = "finished"
  /\ triggers[1].metadata.PlantId = <<"pA">>
  /\ triggers[1].settings = None
  /\ triggers[2].status = "error"
  /\ triggers[2].metadata.PlantId = <<"pB">>
  /\ current_settings = <<"s1">>
  /\ DictLen(registered_clients) = 0
  /\ calls = 2

\* C34: every trigger record is consistent in every state a read can see:
\* busy has no image id and no error, finished has an image id and no error,
\* error has an error value, and only a finished record has an image id.
C34_RecordConsistent ==
  \A t \in 1..Len(triggers) :
    LET rec == triggers[t]
    IN /\ rec.status = "busy" => rec.image_id = None /\ rec.error = NoError
       /\ rec.status = "finished" => rec.image_id # None /\ rec.error = NoError
       /\ rec.status = "error" => rec.error # NoError
       /\ rec.image_id # None => rec.status = "finished"

\* C35: for one trigger a subscriber is sent one ImageAcquisition
\* notification at most: when the notification of a trigger has just been
\* delivered to a subscriber, the run does not post a notification of the
\* same trigger to that subscriber again, whatever register and unregister
\* calls interleave with the fan-out.
C35_NotifiedOnce ==
  [][\A t \in T, e \in sent' :
       ( /\ t <= Len(triggers)
         /\ proc[t].pc = "posting"
         /\ e.Type = "ImageAcquisition"
         /\ e.to = proc[t].target.name
         /\ e.payload = proc[t].target.payload
         /\ proc'[t].pc = "posting" ) =>
         ~ ( /\ proc'[t].target.name = e.to
             /\ proc'[t].target.payload.TriggerId = e.payload.TriggerId )]_vars

\* C36: with two triggers under way on the link, no step closes the socket
\* on which a coroutine still waits for its send or its reply, and a
\* coroutine takes as its reply only the answer to the request it sent.
C36_SocketNotPulled ==
  [][\A t \in T :
       /\ (proc'[t].pc \in Waiting => ~proc'[t].closed)
       /\ (proc'[t].response # proc[t].response =>
             t <= Len(triggers) /\ zmq.req = triggers[t].id)]_vars

\* C37: with triggers processed one at a time, a receive that times out
\* leaves the link on a new socket with no request outstanding, so the late
\* reply to the timed-out request has no socket to arrive on; and a coroutine
\* takes a reply only while the request outstanding on the socket is its own.
C37_LateReplyDropped ==
  [][\A t \in T :
       /\ ( /\ proc[t].pc = "recv"
            /\ proc'[t].pc # "recv"
            /\ proc'[t].response = proc[t].response ) =>
            /\ zmq.req = triggers[t].id
            /\ zmq.reconnect_attempts < max_reconnect_attempts
            /\ zmq'.socket
            /\ zmq'.req = ""
       /\ proc'[t].response # proc[t].response =>
            /\ t <= Len(triggers)
            /\ zmq.req = triggers[t].id
            /\ \A u \in 1..Len(triggers) :
                 u # t => proc[u].pc \in {"none", "done"}]_vars

C37_Witness ==
  /\ Len(triggers) >= 2
  /\ proc[1].pc = "done"
  /\ proc[1].response = None
  /\ triggers[1].status = "error"
  /\ triggers[1].error = TextError("EAGAIN")
  /\ proc[2].pc = "done"
  /\ proc[2].response = <<"0", Blank, "Success">>
  /\ triggers[2].status = "finished"

\* C38: the request a trigger sends and the plant id, settings and metadata
\* of its record are those current when trigger() was called: the submission
\* takes them from the current metadata and settings, and no later step, a
\* setMetadata or setSettings call included, changes the pending request or
\* these fields of the record.
C38_Pending == {"scheduled", "send_wait", "recv", "backoff1", "backoff2"}

C38_SnapshotAtCall ==
  [][/\ Len(triggers') > Len(triggers) =>
          LET n == Len(triggers')
          IN /\ triggers'[n].metadata = current_metadata
             /\ triggers'[n].settings = current_settings
             /\ triggers'[n].plant_id = current_metadata.PlantId
             /\ proc'[n].msg.plant_id = current_metadata.PlantId
             /\ proc'[n].msg.experiment_id = current_metadata.ExperimentId
             /\ proc'[n].msg.settings = current_settings
     /\ \A t \in 1..Len(triggers) :
          /\ triggers'[t].plant_id = triggers[t].plant_id
          /\ triggers'[t].settings = triggers[t].settings
          /\ triggers'[t].metadata = triggers[t].metadata
          /\ proc[t].pc \in C38_Pending =>
               /\ proc[t].msg.plant_id = triggers[t].plant_id
               /\ proc[t].msg.experiment_id = triggers[t].metadata.ExperimentId
               /\ proc[t].msg.settings = triggers[t].settings
          /\ proc'[t].pc \in C38_Pending => proc'[t].msg = proc[t].msg]_vars

C38_Witness ==
  /\ Len(triggers) >= 1
  /\ proc[1].pc = "recv"
  /\ zmq.req = triggers[1].id
  /\ triggers[1].settings = None
  /\ current_settings = <<"s1">>
  /\ current_metadata.PlantId # triggers[1].plant_id
  /\ proc[1].msg.settings = None
  /\ proc[1].msg.plant_id = triggers[1].plant_id

\* C39: an ImageAcquisition notification with Status error carries an Error
\* block whose Code is the error recorded on its trigger, and a notification
\* with Status success carries no Error block; this holds of the payload when
\* it is built and of every notification posted.
C39_ErrorBlock ==
  [][/\ \A t \in T :
          ( /\ t <= Len(triggers')
            /\ proc'[t].pc = "posting"
            /\ proc[t].pc # "posting" \/ proc'[t].phase # proc[t].phase ) =>
            LET p == proc'[t].payload
            IN /\ p.Status = "error" =>
                    p.Error # NoError /\ p.Error = triggers'[t].error
               /\ p.Status = "success" => p.Error = NoError
     /\ \A e \in sent' :
          e.Type = "ImageAcquisition" =>
            /\ e.payload.Status \in {"success", "error"}
            /\ e.payload.Status = "error" =>
                 /\ e.payload.Error # NoError
                 /\ \E t \in 1..Len(triggers) :
                      /\ triggers[t].id = e.payload.TriggerId
                      /\ triggers[t].error = e.payload.Error
            /\ e.payload.Status = "success" => e.payload.Error = NoError]_vars

C39_Witness ==
  \E e \in sent, t \in 1..Len(triggers) :
    /\ e.Type = "ImageAcquisition"
    /\ e.payload.TriggerId = triggers[t].id
    /\ e.payload.Status = "error"
    /\ e.payload.Error.kind = "code"
    /\ triggers[t].status = "error"
    /\ triggers[t].error = e.payload.Error

====
